---- MODULE Spec2Model ----
(***************************************************************************)
(* Case ledger of the Helix moderation cog (cogs/mod.py): case-number      *)
(* allocation, case index, warnings, notice publication and the reason /   *)
(* duration amendment commands, over the whole-document GuildConfig.modules *)
(* store.  Every await on the store, the notice surface or the restriction *)
(* controller is one step of a task; the synchronous code between two      *)
(* awaits belongs to the step that precedes it.                            *)
(***************************************************************************)
EXTENDS Integers, Sequences, FiniteSets, TLC

VARIABLES
    store,      \* the guild_config row: whether it exists, and its modules JSON
    task,       \* per task: the command it runs, where it is, its locals
    notices,    \* the case messages sent so far; a message id is its position
    restr,      \* per member: the timeout in force (None when there is none)
    returned,   \* history: the values _log_case returned, in order
    hist,       \* history: counters and the case numbers whose send failed
    calc        \* the last direct call of a time helper: its input and result

vars == <<store, task, notices, restr, returned, hist, calc>>

----------------------------------------------------------------------------
(* Bounds of the model *)

\* commands that lead to _log_case (warn, mute, kick, ...) started in one behaviour
MaxCalls == 2
\* notice edits (reason, duration) made in one behaviour
MaxEdits == 1
\* commands of any kind started in one behaviour without serialization
MaxConcCmds == 3

\* concurrently dispatched command tasks
Procs == {"t1", "t2"}
\* ctx.author of every command
Author == 9
\* members a command can target: 1 and 2 are humans, 3 is a bot
Members == {1, 2}
BotMembers == {3}
\* the members the enforcement commands (mute, kick) are aimed at
EnforceTargets == {1}
\* ctx.channel of every command, and the channels a mod-log can be set to
CtxChannel == 1
Channels == {2}
\* the reason a case is created with, and the one an amendment sets
Reasons == {"ra"}
NewReasons == {"rb"}
\* action names handed to _log_case by the enforcement commands
EnforceActions == {"Mute", "Kick"}
\* the duration a mute is given: the default "10m" of the command
MuteDurations == {<<"1", "0", "m">>}
\* the duration texts given to the duration command: valid and exactly the
\* cap, above the cap, zero, unparseable, and one with a superscript digit
DurTexts == {<<"2", "8", "d">>, <<"4", "0", "d">>, <<"0">>, <<"5", "x">>,
             <<"5", "^2">>}
\* the enforcement commands on their own: all five of them, aimed at a
\* member, a bot or the invoker, mute with a valid, zero, too long,
\* unparseable and superscript duration
AllEnforceActions == {"Mute", "Unmute", "Kick", "Ban", "Unban"}
AllEnforceTargets == {1, 3, 9}
AllMuteDurations == {<<"1", "0", "m">>, <<"0">>, <<"4", "0", "d">>, <<"5", "x">>,
                     <<"5", "^2">>}
\* the case numbers the amendment commands are given
CaseArgs == 1..(MaxCalls + 1)
\* datetime.now() of a warning
Times == {"t0"}
\* a key of the document that another cog owns, and the channels it is set to
LogKey == "mod_log_channel"
LogChannels == {2}
\* direct calls of parse_duration_ms: every text of at most MaxTextLen
\* characters over ParseChars, and the texts of the docstring and the tests
MaxTextLen == 3
ParseChars == {"0", "1", "9", "h", "M", "s", " ", "x", "^2"}
ParseExamples == {<<"1", "h", "3", "0", "m">>, <<"a", "b", "c">>,
                  <<"1", "h", " ", "3", "0">>, <<" ", "2", "D", " ">>,
                  <<"1", "m", "1", "m">>, <<"1", "^2", "m">>}
ParseTexts == UNION {[1..k -> ParseChars] : k \in 0..MaxTextLen} \cup ParseExamples
\* direct calls of humanize_ms: so many weeks, days, hours, minutes, seconds
UnitCounts == [w |-> {0, 1, 4}, d |-> {0, 1, 6}, h |-> {0, 1, 23},
               m |-> {0, 1, 59}, s |-> {0, 1, 59}]
HumanizeInputs ==
    {w * 604800 + d * 86400 + h * 3600 + m * 60 + sec :
        w \in UnitCounts.w, d \in UnitCounts.d, h \in UnitCounts.h,
        m \in UnitCounts.m, sec \in UnitCounts.s}

----------------------------------------------------------------------------
(* Python values *)

\* Optional[T]: None is the empty set, a value v is {v}
None == {}
Some(v) == {v}
The(o) == CHOOSE v \in o : TRUE

\* dict
EmptyDict == [k \in {} |-> 0]
Get(d, k, default) == IF k \in DOMAIN d THEN d[k] ELSE default
Put(d, k, v) == [j \in DOMAIN d \cup {k} |-> IF j = k THEN v ELSE d[j]]
Pop(d, k) == [j \in DOMAIN d \ {k} |-> d[j]]

\* a str is the sequence of its characters
DigitChars == <<"0", "1", "2", "3", "4", "5", "6", "7", "8", "9">>
\* a character for which str.isdigit() is true and int() raises ValueError:
\* SUPERSCRIPT TWO (U+00B2), written "^2" here
SuperscriptChars == {"^2"}
\* the characters int() reads
IsDecimal(ch) == \E i \in 1..10 : DigitChars[i] = ch
\* str.isdigit()
IsDigit(ch) == IsDecimal(ch) \/ ch \in SuperscriptChars
DigitVal(ch) == (CHOOSE i \in 1..10 : DigitChars[i] = ch) - 1

\* str(n) for n >= 0: the decimal digits, most significant first
RECURSIVE Str(_)
Str(n) == IF n < 10 THEN <<DigitChars[n + 1]>>
          ELSE Str(n \div 10) \o <<DigitChars[(n % 10) + 1]>>

\* int(s) of a digit string
RECURSIVE IntOf(_)
IntOf(s) == IF Len(s) = 0 THEN 0
            ELSE 10 * IntOf(SubSeq(s, 1, Len(s) - 1)) + DigitVal(s[Len(s)])

\* str.lower() and str.isspace() on the characters the commands are given
UpperChars == <<"S", "M", "H", "D", "W", "X">>
LowerChars == <<"s", "m", "h", "d", "w", "x">>
LowerCh(ch) == IF \E i \in 1..6 : UpperChars[i] = ch
               THEN LowerChars[CHOOSE i \in 1..6 : UpperChars[i] = ch]
               ELSE ch
Lower(s) == [i \in 1..Len(s) |-> LowerCh(s[i])]
IsSpace(ch) == ch = " "

\* str.strip()
RECURSIVE LStrip(_)
LStrip(s) == IF Len(s) > 0 /\ IsSpace(s[1]) THEN LStrip(Tail(s)) ELSE s
RECURSIVE RStrip(_)
RStrip(s) == IF Len(s) > 0 /\ IsSpace(s[Len(s)])
             THEN RStrip(SubSeq(s, 1, Len(s) - 1)) ELSE s
Strip(s) == RStrip(LStrip(s))

----------------------------------------------------------------------------
(* Helpers over GuildConfig.modules *)

\* get_modlog_channel_id: int(raw) if raw else None
get_modlog_channel_id(mods) ==
    IF "modlog_channel_id" \in DOMAIN mods /\ Len(mods["modlog_channel_id"]) > 0
    THEN Some(IntOf(mods["modlog_channel_id"]))
    ELSE None

\* a variant of set_modlog_channel_id that starts from an empty document
set_modlog_channel_id_clobber(mods, channel_id) ==
    Put(EmptyDict, "modlog_channel_id", Str(channel_id))
\* set_modlog_channel_id: mods["modlog_channel_id"] = str(channel_id)
set_modlog_channel_id(mods, channel_id) ==
    Put(mods, "modlog_channel_id", Str(channel_id))

\* a variant of next_case_number that skips a number
NextSeqBad(mods) == IntOf(Get(mods, "case_seq", Str(0))) + 2
\* next_case_number: the number returned
NextSeq(mods) == IntOf(Get(mods, "case_seq", Str(0))) + 1

\* a variant of next_case_number that writes a document of its own
next_case_number_alone(mods) == Put(EmptyDict, "case_seq", Str(NextSeq(mods)))
\* next_case_number: the document after mods["case_seq"] = str(n)
next_case_number(mods) == Put(mods, "case_seq", Str(NextSeq(mods)))

\* Logs._set_log_channel: modules[key] = channel.id
set_log_channel(mods, channel_id) == Put(mods, LogKey, channel_id)

\* _get_case_index
get_case_index(mods) == Get(mods, "case_index", EmptyDict)

\* a variant of the index entry with channel and message exchanged
IndexEntrySwapped(channel_id, message_id, user_id) ==
    IF user_id = None
    THEN [c |-> Str(message_id), m |-> Str(channel_id)]
    ELSE [c |-> Str(message_id), m |-> Str(channel_id), u |-> Str(The(user_id))]
\* the index entry _set_case_index_entry builds
IndexEntry(channel_id, message_id, user_id) ==
    IF user_id = None
    THEN [c |-> Str(channel_id), m |-> Str(message_id)]
    ELSE [c |-> Str(channel_id), m |-> Str(message_id), u |-> Str(The(user_id))]

\* a variant of _set_case_index_entry that starts from an empty index
set_case_index_entry_alone(mods, case_no, channel_id, message_id, user_id) ==
    Put(mods, "case_index",
        Put(EmptyDict, Str(case_no), IndexEntry(channel_id, message_id, user_id)))
\* a variant of _set_case_index_entry that files the entry under the next number
set_case_index_entry_next(mods, case_no, channel_id, message_id, user_id) ==
    Put(mods, "case_index",
        Put(get_case_index(mods), Str(case_no + 1),
            IndexEntry(channel_id, message_id, user_id)))
\* _set_case_index_entry
set_case_index_entry(mods, case_no, channel_id, message_id, user_id) ==
    Put(mods, "case_index",
        Put(get_case_index(mods), Str(case_no),
            IndexEntry(channel_id, message_id, user_id)))

\* a variant of warn that stores no record
AppendNoWarning(mods, member, reason, now) == mods
\* warn: append one record to warns[str(member.id)]
AppendWarning(mods, member, reason, now) ==
    LET warns == Get(mods, "warns", EmptyDict)
        user_warns == Get(warns, Str(member), <<>>)
        rec == [reason |-> reason, moderator |-> Str(Author), timestamp |-> now]
    IN  Put(mods, "warns", Put(warns, Str(member), Append(user_warns, rec)))

\* warns: the stored warnings of a member, [] when there are none
list_warnings(mods, member) ==
    Get(Get(mods, "warns", EmptyDict), Str(member), <<>>)

\* a variant of clearwarns that empties the whole warns map
ClearAllWarnings(mods, member) ==
    Put(mods, "warns", EmptyDict)
\* clearwarns: pop the member's list
ClearWarnings(mods, member) ==
    Put(mods, "warns", Pop(Get(mods, "warns", EmptyDict), Str(member)))

\* a variant of the patch that rewrites the oldest warning
PatchFirstWarning(mods, uid, new_reason) ==
    LET warns == Get(mods, "warns", EmptyDict)
        user_warns == warns[Str(The(uid))]
        patched == [user_warns EXCEPT ![1].reason = new_reason]
    IN  Put(mods, "warns", Put(warns, Str(The(uid)), patched))
\* a variant of the condition of the patch that wants exactly one warning
HasOneWarning(mods, uid) ==
    /\ uid # None /\ The(uid) # 0
    /\ Str(The(uid)) \in DOMAIN Get(mods, "warns", EmptyDict)
    /\ Len(Get(mods, "warns", EmptyDict)[Str(The(uid))]) = 1
\* reason: user_warns[-1]["reason"] = new_reason, when the stored user id has
\* a non-empty list; otherwise nothing is written
HasWarnings(mods, uid) ==
    /\ uid # None /\ The(uid) # 0
    /\ Str(The(uid)) \in DOMAIN Get(mods, "warns", EmptyDict)
    /\ Len(Get(mods, "warns", EmptyDict)[Str(The(uid))]) > 0
PatchLastWarning(mods, uid, new_reason) ==
    LET warns == Get(mods, "warns", EmptyDict)
        user_warns == warns[Str(The(uid))]
        patched == [user_warns EXCEPT ![Len(user_warns)].reason = new_reason]
    IN  Put(mods, "warns", Put(warns, Str(The(uid)), patched))

\* str.lower() of the words of an embed: field names and action names
LowerWord(w) ==
    CASE w = "User" -> "user"
      [] w = "Moderator" -> "moderator"
      [] w = "Reason" -> "reason"
      [] w = "Duration" -> "duration"
      [] w = "Warn" -> "warn"
      [] w = "Mute" -> "mute"
      [] w = "Kick" -> "kick"
      [] OTHER -> w

\* the index of the first field whose lower-cased name is `name`, 0 for None
FindField(fields, name) ==
    IF \E i \in 1..Len(fields) : LowerWord(fields[i].name) = name
    THEN CHOOSE i \in 1..Len(fields) :
            /\ LowerWord(fields[i].name) = name
            /\ \A j \in 1..(i - 1) : LowerWord(fields[j].name) # name
    ELSE 0

\* set_field_at when the field exists, add_field otherwise
SetField(embed, lname, name, value) ==
    LET i == FindField(embed.fields, lname)
    IN  IF i # 0
        THEN [embed EXCEPT !.fields[i] = [name |-> name, value |-> value]]
        ELSE [embed EXCEPT !.fields = Append(@, [name |-> name, value |-> value])]

\* a variant of the action read off the author line that takes every case
\* for a mute
ActionNameIgnored(embed) ==
    IF Len(embed.author) >= 2 THEN "mute" ELSE ""
\* duration: the action of the author line "Case N | <Action> | <username>",
\* parts[1] lower-cased when there are at least two parts
ActionName(embed) ==
    IF Len(embed.author) >= 2 THEN LowerWord(embed.author[2]) ELSE ""

\* the persisted case_seq as a number (0 when the key is absent)
SeqOf(mods) == IntOf(Get(mods, "case_seq", Str(0)))

----------------------------------------------------------------------------
(* Time helpers.  Python's integers are unbounded and 28 days of            *)
(* milliseconds exceed 2^31, so a duration is held here in units of 1000 ms: *)
(* the value k stands for k * 1000 ms.  Every entry of _UNIT_MS is a         *)
(* multiple of 1000, so every total the parser builds is one too.            *)

\* _UNIT_MS, in units of 1000 ms
IsUnit(ch) == ch \in {"s", "m", "h", "d", "w"}
UnitMs(ch) ==
    CASE ch = "s" -> 1
      [] ch = "m" -> 60
      [] ch = "h" -> 3600
      [] ch = "d" -> 86400
      [] ch = "w" -> 604800

\* int(num) raises ValueError: the exception leaves parse_duration_ms. It is
\* held as a result of its own, apart from None and from every total
ValueError == {0 - 1}
IntRaises(num) == \E i \in 1..Len(num) : ~IsDecimal(num[i])

\* the loop of parse_duration_ms from character i on, with the running
\* total and the digits collected in num; None is the `return None`
RECURSIVE ParseFrom(_, _, _, _)
ParseFrom(s, i, total, num) ==
    IF i > Len(s)
    THEN IF Len(num) = 0 THEN Some(total)
         ELSE IF IntRaises(num) THEN ValueError
         ELSE Some(total + IntOf(num) * UnitMs("s"))
    ELSE IF IsDigit(s[i]) THEN ParseFrom(s, i + 1, total, Append(num, s[i]))
    ELSE IF IsUnit(s[i]) /\ Len(num) > 0
         THEN IF IntRaises(num) THEN ValueError
              ELSE ParseFrom(s, i + 1, total + IntOf(num) * UnitMs(s[i]), <<>>)
    ELSE IF IsSpace(s[i]) THEN ParseFrom(s, i + 1, total, num)
    ELSE None

\* parse_duration_ms: Optional[int], `total or None` at the end
parse_duration_ms(s) ==
    IF Len(s) = 0 THEN None
    ELSE LET r == ParseFrom(Lower(Strip(s)), 1, 0, <<>>)
         IN  IF r = None \/ The(r) = 0 THEN None ELSE r

\* humanize_ms: the units from the largest on, each taken when ms >= size
HumanUnits == <<"w", "d", "h", "m", "s">>
\* a variant of the loop that does not carry the remainder of the division on
RECURSIVE HumanFromNoRemainder(_, _)
HumanFromNoRemainder(ms, k) ==
    IF k > Len(HumanUnits) THEN <<>>
    ELSE LET size == UnitMs(HumanUnits[k])
         IN  IF ms >= size
             THEN Str(ms \div size) \o <<HumanUnits[k]>> \o HumanFromNoRemainder(ms, k + 1)
             ELSE HumanFromNoRemainder(ms, k + 1)
RECURSIVE HumanFrom(_, _)
HumanFrom(ms, k) ==
    IF k > Len(HumanUnits) THEN <<>>
    ELSE LET size == UnitMs(HumanUnits[k])
         IN  IF ms >= size
             THEN Str(ms \div size) \o <<HumanUnits[k]>> \o HumanFrom(ms % size, k + 1)
             ELSE HumanFrom(ms, k + 1)
humanize_ms(ms) ==
    IF Len(HumanFrom(ms, 1)) = 0 THEN <<"0", "s">> ELSE HumanFrom(ms, 1)

\* max_ms = 28 * 24 * 60 * 60 * 1000 of mute and duration, in units of 1000 ms
MaxMs == 28 * 24 * 60 * 60

----------------------------------------------------------------------------
(* State *)

\* a task that runs no command
IdleTask ==
    [pc |-> "idle", cmd |-> "none", target |-> 0, action |-> "none",
     reason |-> "none", now |-> "none", chanArg |-> None, caseArg |-> 0,
     dur |-> <<>>, ms |-> 0, uid |-> None, member |-> None,
     isTimeout |-> FALSE, edited |-> None,
     cfg |-> EmptyDict, case_no |-> 0 - 1, modlog_id |-> None, chan |-> None,
     msg |-> None, ret |-> None, outcome |-> "none", ev |-> <<>>,
     resume |-> "none", fresh |-> FALSE, base |-> 0]

\* a command that has returned or raised: its locals are gone, what it
\* reported stays until the task takes its next command
Finish(t, outcome) ==
    [IdleTask EXCEPT !.pc = "done", !.cmd = t.cmd, !.target = t.target,
                     !.action = t.action, !.caseArg = t.caseArg, !.dur = t.dur, !.case_no = t.case_no,
                     !.ret = t.ret, !.ev = t.ev, !.outcome = outcome]

FetchSites == {"warn_fetch", "lc_fetch", "idx_fetch", "modlog_fetch", "cw_fetch",
               "reason_fetch", "patch_fetch", "dur_fetch", "log_fetch"}
CommitSites == {"warn_commit", "lc_commit", "idx_commit", "modlog_commit",
                "cw_commit", "patch_commit", "log_commit"}

Resting(p) == task[p].pc \in {"idle", "done"}

\* no time helper has been called
NoCall == [op |-> "none", text |-> <<>>, ms |-> 0, human |-> <<>>, parsed |-> None]

\* the row of this guild in guild_config: absent until the first get_guild_cfg
Init ==
    /\ store = [exists |-> FALSE, modules |-> EmptyDict]
    /\ task = [p \in Procs |-> IdleTask]
    /\ notices = <<>>
    /\ restr = [m \in Members |-> None]
    /\ returned = <<>>
    /\ hist = [calls |-> 0, cmds |-> 0, edits |-> 0, maxSeq |-> 0, gaps |-> {}]
    /\ calc = NoCall

\* the task that runs the commands of the community one after another when
\* access is serialized
Worker == "t1"

\* a command is dispatched to task p; under serialized access the commands
\* form one queue, each started when the one before it has ended
CanStart(p, serial) ==
    /\ Resting(p)
    /\ IF serial THEN p = Worker ELSE hist.cmds < MaxConcCmds

\* the bookkeeping of a started command: leadsToCase for the commands that
\* go on to _log_case
Started(serial, leadsToCase) ==
    [hist EXCEPT !.calls = IF leadsToCase THEN @ + 1 ELSE @,
                 !.cmds = IF serial THEN @ ELSE @ + 1]

----------------------------------------------------------------------------
(* Commands: entry *)

\* warn: an invalid target is refused before anything is stored
WarnStart(p, serial) ==
    /\ CanStart(p, serial)
    /\ hist.calls < MaxCalls
    /\ \E member \in Members \cup BotMembers \cup {Author}, reason \in Reasons,
          now \in Times :
          /\ task' = [task EXCEPT ![p] =
              IF member \in BotMembers \/ member = Author
              THEN Finish([IdleTask EXCEPT !.cmd = "warn", !.target = member],
                          "InvalidTarget")
              ELSE [IdleTask EXCEPT !.pc = "warn_fetch", !.cmd = "warn",
                                    !.target = member, !.action = "Warn",
                                    !.reason = reason, !.now = now]]
          /\ hist' = Started(serial, ~(member \in BotMembers \/ member = Author))
    /\ UNCHANGED <<store, notices, restr, returned, calc>>

\* mute / unmute / kick / ban / unban up to the enforcement call: mute, kick
\* and ban refuse a bot and the invoker, mute validates its duration; an
\* exception of the parser leaves the command
EnforceBegin(p, serial, targets, actions, durations) ==
    /\ CanStart(p, serial)
    /\ hist.calls < MaxCalls
    /\ \E member \in targets, action \in actions, reason \in Reasons,
          duration \in durations :
          LET t == [IdleTask EXCEPT !.cmd = "enforce", !.target = member,
                                    !.action = action, !.reason = reason,
                                    !.dur = IF action = "Mute" THEN duration ELSE <<>>]
              ms == parse_duration_ms(duration)
          IN  task' = [task EXCEPT ![p] =
                  IF action \in {"Mute", "Kick", "Ban"}
                        /\ (member \in BotMembers \/ member = Author)
                  THEN Finish(t, "InvalidTarget")
                  ELSE IF action = "Mute" /\ ms = ValueError THEN Finish(t, "Raised")
                  ELSE IF action = "Mute" /\ (ms = None \/ The(ms) <= 0)
                  THEN Finish(t, "InvalidDuration")
                  ELSE IF action = "Mute" /\ The(ms) > MaxMs
                  THEN Finish(t, "DurationTooLong")
                  ELSE [t EXCEPT !.pc = "enforce"]]
    /\ hist' = Started(serial, FALSE)
    /\ UNCHANGED <<store, notices, restr, returned, calc>>

\* mute and kick among the other commands
EnforceStart(p, serial) ==
    EnforceBegin(p, serial, EnforceTargets, EnforceActions, MuteDurations)

\* the five enforcement commands with every kind of argument
EnforceAny(p) ==
    EnforceBegin(p, TRUE, AllEnforceTargets, AllEnforceActions, AllMuteDurations)

\* a variant of the enforcement call that goes on to _log_case when it fails
EnforceLogsAnyway(p) ==
    /\ task[p].pc = "enforce"
    /\ \E r \in {"ok", "forbidden", "error"} :
          /\ task' = [task EXCEPT ![p] =
                [task[p] EXCEPT !.pc = "lc_fetch",
                                !.ev = IF r = "ok" THEN @ ELSE Append(@, "enforce_" \o r)]]
          /\ restr' = IF r = "ok" /\ task[p].action = "Mute"
                      THEN [restr EXCEPT ![task[p].target] =
                               parse_duration_ms(task[p].dur)]
                      ELSE IF r = "ok" /\ task[p].action = "Unmute"
                      THEN [restr EXCEPT ![task[p].target] = None]
                      ELSE restr
          /\ hist' = [hist EXCEPT !.calls = @ + 1]
    /\ UNCHANGED <<store, notices, returned, calc>>

\* member.timeout / member.kick / guild.ban / guild.unban: on Forbidden or
\* any other exception the command replies and returns without calling
\* _log_case; unmute clears the timeout
Enforce(p) ==
    /\ task[p].pc = "enforce"
    /\ \E r \in {"ok", "forbidden", "error"} :
          /\ task' = [task EXCEPT ![p] =
                IF r = "ok" THEN [task[p] EXCEPT !.pc = "lc_fetch"]
                ELSE Finish([task[p] EXCEPT !.ev = Append(@, "enforce_" \o r)],
                            "EnforceFailed")]
          /\ restr' = IF r = "ok" /\ task[p].action = "Mute"
                      THEN [restr EXCEPT ![task[p].target] =
                               parse_duration_ms(task[p].dur)]
                      ELSE IF r = "ok" /\ task[p].action = "Unmute"
                      THEN [restr EXCEPT ![task[p].target] = None]
                      ELSE restr
          /\ hist' = [hist EXCEPT !.calls = IF r = "ok" THEN @ + 1 ELSE @]
    /\ UNCHANGED <<store, notices, returned, calc>>

\* modlog [channel]
ModlogStart(p, serial) ==
    /\ CanStart(p, serial)
    /\ \E ch \in {None} \cup {Some(c) : c \in Channels} :
          task' = [task EXCEPT ![p] =
              [IdleTask EXCEPT !.pc = "modlog_fetch", !.cmd = "modlog",
                               !.chanArg = ch]]
    /\ hist' = Started(serial, FALSE)
    /\ UNCHANGED <<store, notices, restr, returned, calc>>

\* clearwarns member
ClearwarnsStart(p, serial) ==
    /\ CanStart(p, serial)
    /\ \E member \in Members :
          task' = [task EXCEPT ![p] =
              [IdleTask EXCEPT !.pc = "cw_fetch", !.cmd = "clearwarns",
                               !.target = member]]
    /\ hist' = Started(serial, FALSE)
    /\ UNCHANGED <<store, notices, restr, returned, calc>>

\* log moderation channel, of the Logs cog: it keeps its channel in the same
\* document
LogStart(p, serial) ==
    /\ CanStart(p, serial)
    /\ \E ch \in LogChannels :
          task' = [task EXCEPT ![p] =
              [IdleTask EXCEPT !.pc = "log_fetch", !.cmd = "log",
                               !.chanArg = Some(ch)]]
    /\ hist' = Started(serial, FALSE)
    /\ UNCHANGED <<store, notices, restr, returned, calc>>

----------------------------------------------------------------------------
(* The store: get_guild_cfg and session.commit *)

\* a variant of the lookup that reads the entry of the number before
LookupOffByOne(mods, case_no) ==
    LET idx == Get(mods, "case_index", EmptyDict)
    IN  IF Str(case_no - 1) \in DOMAIN idx THEN Some(idx[Str(case_no - 1)]) ELSE None
\* reason / duration: idx.get(str(case_no)), None when the case is not indexed
Lookup(mods, case_no) ==
    LET idx == Get(mods, "case_index", EmptyDict)
    IN  IF Str(case_no) \in DOMAIN idx THEN Some(idx[Str(case_no)]) ELSE None

\* ch_id, msg_id = int(entry["c"]), int(entry["m"])
EntryLocation(entry) == [ch |-> IntOf(entry.c), id |-> IntOf(entry.m)]

\* stored_uid = int(entry["u"]) if "u" in entry else None
EntryUser(entry) == IF "u" \in DOMAIN entry THEN Some(IntOf(entry.u)) ELSE None

\* The synchronous code that follows `cfg = await get_guild_cfg(...)` at each
\* site, up to the next await; mods is the document the select returned.

\* warn: append the warning to the session's document
LoadWarn(t, mods) ==
    [t EXCEPT !.pc = "warn_commit", !.fresh = TRUE,
              !.cfg = AppendWarning(mods, t.target, t.reason, t.now)]

\* a variant of _log_case 1) that sends before the increment is committed
LoadLogCaseNoCommit(t, mods) ==
    LET id == get_modlog_channel_id(mods)
    IN  IF id # None /\ The(id) # 0
        THEN [t EXCEPT !.pc = "lc_send", !.case_no = NextSeq(mods),
                       !.base = SeqOf(mods), !.modlog_id = id]
        ELSE [t EXCEPT !.pc = "lc_commit", !.fresh = TRUE,
                       !.case_no = NextSeq(mods), !.base = SeqOf(mods),
                       !.cfg = next_case_number(mods), !.modlog_id = id]
\* _log_case 1): next_case_number and get_modlog_channel_id, then the commit
LoadLogCase(t, mods) ==
    [t EXCEPT !.pc = "lc_commit", !.fresh = TRUE,
              !.case_no = NextSeq(mods),
              !.base = SeqOf(mods),
              !.cfg = next_case_number(mods),
              !.modlog_id = get_modlog_channel_id(next_case_number(mods))]

\* a variant of _log_case 4) that indexes the configured channel
LoadIndexConfigured(t, mods) ==
    [t EXCEPT !.pc = "idx_commit", !.fresh = TRUE,
              !.cfg = set_case_index_entry(mods, t.case_no,
                          The(t.modlog_id), The(t.msg).id, Some(t.target))]
\* _log_case 4): the entry for (message_obj.channel.id, message_obj.id, target.id)
LoadIndex(t, mods) ==
    [t EXCEPT !.pc = "idx_commit", !.fresh = TRUE,
              !.cfg = set_case_index_entry(mods, t.case_no,
                          The(t.msg).ch, The(t.msg).id, Some(t.target))]

\* modlog: without a channel the current one is shown, with one it is set
LoadModlog(t, mods) ==
    IF t.chanArg = None
    THEN Finish(t, "ModlogShown")
    ELSE [t EXCEPT !.pc = "modlog_commit", !.fresh = TRUE,
                   !.cfg = set_modlog_channel_id(mods, The(t.chanArg))]

\* clearwarns: commit only when the member has an entry in warns
LoadClearwarns(t, mods) ==
    IF Str(t.target) \in DOMAIN Get(mods, "warns", EmptyDict)
    THEN [t EXCEPT !.pc = "cw_commit", !.fresh = TRUE,
                   !.cfg = ClearWarnings(mods, t.target)]
    ELSE Finish(t, "NoWarnings")

\* Logs._set_log_channel: set the key of the Logs cog
LoadLogChannel(t, mods) ==
    [t EXCEPT !.pc = "log_commit", !.fresh = TRUE,
              !.cfg = set_log_channel(mods, The(t.chanArg))]

\* reason 1) and duration 1): locate the message of the case
LoadCase(t, mods, next) ==
    IF Lookup(mods, t.caseArg) = None
    THEN Finish(t, "NotFound")
    ELSE [t EXCEPT !.pc = next,
                   !.msg = Some(EntryLocation(The(Lookup(mods, t.caseArg)))),
                   !.uid = EntryUser(The(Lookup(mods, t.caseArg)))]

\* reason 4): patch the latest warning of the stored user, if there is one
LoadPatch(t, mods) ==
    IF HasWarnings(mods, t.uid)
    THEN [t EXCEPT !.pc = "patch_commit", !.fresh = TRUE,
                   !.cfg = PatchLastWarning(mods, t.uid, t.reason)]
    ELSE Finish(t, "Updated")

AfterLoad(t, site, mods) ==
    CASE site = "warn_fetch" -> LoadWarn(t, mods)
      [] site = "lc_fetch" -> LoadLogCase(t, mods)
      [] site = "idx_fetch" -> LoadIndex(t, mods)
      [] site = "modlog_fetch" -> LoadModlog(t, mods)
      [] site = "cw_fetch" -> LoadClearwarns(t, mods)
      [] site = "reason_fetch" -> LoadCase(t, mods, "reason_msg")
      [] site = "patch_fetch" -> LoadPatch(t, mods)
      [] site = "dur_fetch" -> LoadCase(t, mods, "dur_msg")
      [] site = "log_fetch" -> LoadLogChannel(t, mods)

\* get_guild_cfg, the select: the row is there, or it has to be created
Fetch(p) ==
    /\ task[p].pc \in FetchSites
    /\ task' = [task EXCEPT ![p] =
          IF store.exists
          THEN AfterLoad(task[p], task[p].pc, store.modules)
          ELSE [task[p] EXCEPT !.pc = "create", !.resume = task[p].pc]]
    /\ UNCHANGED <<store, notices, restr, returned, hist, calc>>

\* get_guild_cfg, the insert of a row with modules = {}: guild_id is unique, so
\* the insert of a task that lost the race raises
Create(p) ==
    /\ task[p].pc = "create"
    /\ IF store.exists
       THEN /\ task' = [task EXCEPT ![p] = Finish(task[p], "Raised")]
            /\ UNCHANGED store
       ELSE /\ store' = [exists |-> TRUE, modules |-> EmptyDict]
            /\ task' = [task EXCEPT ![p] = AfterLoad(task[p], task[p].resume, EmptyDict)]
    /\ UNCHANGED <<notices, restr, returned, hist, calc>>

\* what a write of the document did to the ledger, as the events of the
\* _log_case invocation that wrote it
CommitEvents(old, new) ==
    (IF SeqOf(new) = SeqOf(old) + 1 THEN <<"inc">>
     ELSE IF SeqOf(new) # SeqOf(old) THEN <<"seq">> ELSE <<>>)
    \o (IF get_case_index(new) # get_case_index(old) THEN <<"idx">> ELSE <<>>)

\* `if modlog_id:` of _log_case
Truthy(modlog_id) == modlog_id # None /\ The(modlog_id) # 0

\* where a command goes on after its commit; _log_case sends and indexes only
\* under `if modlog_id:` and otherwise falls off its end, returning None
AfterCommit(t) ==
    CASE t.pc = "warn_commit" -> [t EXCEPT !.pc = "lc_fetch"]
      [] t.pc = "lc_commit" ->
            IF Truthy(t.modlog_id)
            THEN [t EXCEPT !.pc = "lc_send"]
            ELSE Finish([t EXCEPT !.ret = None], "Returned")
      [] t.pc = "idx_commit" -> [t EXCEPT !.pc = "lc_summary"]
      [] t.pc = "modlog_commit" -> Finish(t, "ModlogSet")
      [] t.pc = "cw_commit" -> Finish(t, "Cleared")
      [] t.pc = "patch_commit" -> Finish(t, "Updated")
      [] t.pc = "log_commit" -> Finish(t, "LogChannelSet")

\* session.commit(): the whole modules document of the session replaces the
\* stored one; the session ends, and every other open session is now behind
Commit(p) ==
    /\ task[p].pc \in CommitSites
    /\ store' = [store EXCEPT !.modules = task[p].cfg]
    /\ task' = [q \in Procs |->
          IF q = p
          THEN AfterCommit([task[p] EXCEPT
                    !.cfg = EmptyDict,
                    !.ev = @ \o CommitEvents(store.modules, task[p].cfg)])
          ELSE [task[q] EXCEPT !.fresh = FALSE]]
    /\ hist' = [hist EXCEPT
          !.maxSeq = IF SeqOf(task[p].cfg) > @ THEN SeqOf(task[p].cfg) ELSE @]
    /\ returned' = IF task[p].pc = "lc_commit" /\ ~Truthy(task[p].modlog_id)
                   THEN Append(returned, None) ELSE returned
    /\ UNCHANGED <<notices, restr, calc>>

----------------------------------------------------------------------------
(* _log_case: publish, index, summary *)

\* the log embed: author line "Case N | action | name" and its fields
CaseEmbed(t, channel_id) ==
    [ch |-> channel_id,
     author |-> <<t.case_no, t.action, t.target>>,
     fields |-> <<[name |-> "User", value |-> t.target],
                  [name |-> "Moderator", value |-> Author],
                  [name |-> "Reason", value |-> t.reason]>>
                \o (IF Len(t.dur) > 0
                    THEN <<[name |-> "Duration", value |-> t.dur]>> ELSE <<>>)]

\* the channel the embed is sent to: the mod-log channel when it resolves
\* (cache, then fetch_channel), else ctx.channel
SendChannel(channel) == IF channel # None THEN The(channel) ELSE CtxChannel

\* resolve the mod-log channel and send the embed; a failed send raises out
\* of _log_case and of the command
LcSend(p) ==
    /\ task[p].pc = "lc_send"
    /\ \E resolved \in BOOLEAN, sent \in BOOLEAN :
          LET channel == IF resolved THEN task[p].modlog_id ELSE None
              dest == SendChannel(channel)
          IN  IF sent
              THEN /\ notices' = Append(notices, CaseEmbed(task[p], dest))
                   /\ task' = [task EXCEPT ![p] =
                         [task[p] EXCEPT !.pc = "idx_fetch", !.chan = channel,
                                   !.msg = Some([ch |-> dest, id |-> Len(notices) + 1]),
                                   !.ev = Append(@, "pub")]]
                   /\ UNCHANGED hist
              ELSE /\ task' = [task EXCEPT ![p] =
                         Finish(task[p], "Raised")]
                   /\ hist' = [hist EXCEPT !.gaps = @ \cup {task[p].case_no}]
                   /\ UNCHANGED <<notices, restr>>
    /\ UNCHANGED <<store, restr, returned, calc>>

\* the summary to the invoker, then `return case_no`
LcSummary(p) ==
    /\ task[p].pc = "lc_summary"
    /\ \E sent \in BOOLEAN :
          IF sent
          THEN /\ task' = [task EXCEPT ![p] =
                     Finish([task[p] EXCEPT !.ret = Some(task[p].case_no)],
                            "Returned")]
               /\ returned' = Append(returned, Some(task[p].case_no))
          ELSE /\ task' = [task EXCEPT ![p] =
                     Finish(task[p], "Raised")]
               /\ UNCHANGED returned
    /\ UNCHANGED <<store, notices, restr, hist, calc>>

----------------------------------------------------------------------------
(* reason and duration: the amendment commands *)

\* what resolving the channel and channel.fetch_message(msg_id) can give: the
\* message is found only where it was sent
FetchResults(loc) ==
    {"nochannel", "nomessage", "noembed"}
    \cup (IF loc.id \in 1..Len(notices) /\ notices[loc.id].ch = loc.ch
          THEN {"ok"} ELSE {})

\* reason <case_no> <new_reason>
ReasonStart(p, serial) ==
    /\ CanStart(p, serial)
    /\ hist.edits < MaxEdits
    /\ \E case_no \in CaseArgs, new_reason \in NewReasons :
          task' = [task EXCEPT ![p] =
              [IdleTask EXCEPT !.pc = "reason_fetch", !.cmd = "reason",
                               !.caseArg = case_no, !.reason = new_reason]]
    /\ hist' = Started(serial, FALSE)
    /\ UNCHANGED <<store, notices, restr, returned, calc>>

\* fetch the log message and build the edited embed
ReasonMsg(p) ==
    /\ task[p].pc = "reason_msg"
    /\ \E r \in FetchResults(The(task[p].msg)) :
          task' = [task EXCEPT ![p] =
              IF r = "ok"
              THEN [task[p] EXCEPT
                      !.pc = "reason_edit",
                      !.edited = Some(SetField(notices[The(task[p].msg).id],
                                               "reason", "Reason", task[p].reason))]
              ELSE Finish(task[p], "NoticeUnavailable")]
    /\ UNCHANGED <<store, notices, restr, returned, hist, calc>>

\* a variant of the edit step that goes on to the warning patch when the
\* edit fails
ReasonEditThenPatch(p) ==
    /\ task[p].pc = "reason_edit"
    /\ \E ok \in BOOLEAN :
          IF ok
          THEN /\ notices' = [notices EXCEPT ![The(task[p].msg).id] = The(task[p].edited)]
               /\ task' = [task EXCEPT ![p] =
                     [task[p] EXCEPT !.pc = "patch_fetch", !.edited = None,
                                     !.ev = Append(@, "edit")]]
               /\ hist' = [hist EXCEPT !.edits = @ + 1]
          ELSE /\ task' = [task EXCEPT ![p] =
                     [task[p] EXCEPT !.pc = "patch_fetch", !.edited = None]]
               /\ UNCHANGED <<notices, hist>>
    /\ UNCHANGED <<store, restr, returned, calc>>

\* message.edit(embed=edited)
ReasonEdit(p) ==
    /\ task[p].pc = "reason_edit"
    /\ \E ok \in BOOLEAN :
          IF ok
          THEN /\ notices' = [notices EXCEPT ![The(task[p].msg).id] = The(task[p].edited)]
               /\ task' = [task EXCEPT ![p] =
                     [task[p] EXCEPT !.pc = "patch_fetch", !.edited = None,
                                     !.ev = Append(@, "edit")]]
               /\ hist' = [hist EXCEPT !.edits = @ + 1]
          ELSE /\ task' = [task EXCEPT ![p] = Finish(task[p], "EditFailed")]
               /\ UNCHANGED <<notices, hist>>
    /\ UNCHANGED <<store, restr, returned, calc>>

\* a variant of duration that looks the case up before it validates the text
DurationStartLookupFirst(p, serial) ==
    /\ CanStart(p, serial)
    /\ hist.edits < MaxEdits
    /\ \E case_no \in CaseArgs, duration \in DurTexts :
          LET ms == parse_duration_ms(duration)
              t == [IdleTask EXCEPT !.cmd = "duration", !.caseArg = case_no,
                                    !.dur = duration]
          IN  task' = [task EXCEPT ![p] =
                  IF ms = ValueError THEN Finish(t, "Raised")
                  ELSE [t EXCEPT !.pc = "dur_fetch",
                                 !.ms = IF ms = None THEN 0 ELSE The(ms)]]
    /\ hist' = Started(serial, FALSE)
    /\ UNCHANGED <<store, notices, restr, returned, calc>>

\* duration <case_no> <duration>: the text is validated before anything else;
\* an exception of the parser leaves the command
DurationStart(p, serial) ==
    /\ CanStart(p, serial)
    /\ hist.edits < MaxEdits
    /\ \E case_no \in CaseArgs, duration \in DurTexts :
          LET ms == parse_duration_ms(duration)
              t == [IdleTask EXCEPT !.cmd = "duration", !.caseArg = case_no,
                                    !.dur = duration]
          IN  task' = [task EXCEPT ![p] =
                  IF ms = ValueError THEN Finish(t, "Raised")
                  ELSE IF ms = None \/ The(ms) <= 0 THEN Finish(t, "InvalidDuration")
                  ELSE IF The(ms) > MaxMs THEN Finish(t, "DurationTooLong")
                  ELSE [t EXCEPT !.pc = "dur_fetch", !.ms = The(ms)]]
    /\ hist' = Started(serial, FALSE)
    /\ UNCHANGED <<store, notices, restr, returned, calc>>

\* the user id the timeout is applied to: the indexed one, else the one read
\* back from the "User" field
ResolveUid(stored_uid, embed) ==
    IF stored_uid # None THEN stored_uid
    ELSE IF FindField(embed.fields, "user") # 0
         THEN Some(embed.fields[FindField(embed.fields, "user")].value)
         ELSE None

\* fetch the message, read the action off the author line, resolve the
\* member (cache, then fetch_member) and build the edited embed
DurMsg(p) ==
    /\ task[p].pc = "dur_msg"
    /\ \E r \in FetchResults(The(task[p].msg)), found \in BOOLEAN :
          task' = [task EXCEPT ![p] =
              IF r = "ok"
              THEN LET emb == notices[The(task[p].msg).id]
                       is_timeout_case == ActionName(emb) \in {"mute", "timeout"}
                       uid == ResolveUid(task[p].uid, emb)
                       member == IF is_timeout_case /\ uid # None /\ The(uid) # 0
                                    /\ found
                                 THEN uid ELSE None
                   IN  [task[p] EXCEPT
                          !.pc = IF is_timeout_case /\ member # None
                                 THEN "dur_timeout" ELSE "dur_edit",
                          !.isTimeout = is_timeout_case,
                          !.member = member,
                          !.edited = Some(SetField(emb, "duration", "Duration",
                                                   humanize_ms(task[p].ms)))]
              ELSE Finish(task[p], "NoticeUnavailable")]
    /\ UNCHANGED <<store, notices, restr, returned, hist, calc>>

\* a variant of the except clauses that does not tell Forbidden apart
TimeoutFailureGeneric(r) == "RestrictionFailed"
\* except discord.Forbidden / except Exception of the timeout call: what the
\* command reports
TimeoutFailure(r) == IF r = "forbidden" THEN "Denied" ELSE "RestrictionFailed"

\* a variant of the timeout step that goes on to the edit when the call fails
DurTimeoutContinue(p) ==
    /\ task[p].pc = "dur_timeout"
    /\ \E r \in {"ok", "forbidden", "error"} :
          IF r = "ok"
          THEN /\ restr' = [restr EXCEPT ![The(task[p].member)] = Some(task[p].ms)]
               /\ task' = [task EXCEPT ![p] =
                     [task[p] EXCEPT !.pc = "dur_edit", !.ev = Append(@, "restrict")]]
          ELSE /\ task' = [task EXCEPT ![p] =
                     [task[p] EXCEPT !.pc = "dur_edit",
                                     !.ev = Append(@, "restrict_" \o r)]]
               /\ UNCHANGED restr
    /\ UNCHANGED <<store, notices, returned, hist, calc>>

\* member_for_timeout.timeout(now + ms): on Forbidden or any other exception
\* the command reports the failure and returns, the message is not edited
DurTimeout(p) ==
    /\ task[p].pc = "dur_timeout"
    /\ \E r \in {"ok", "forbidden", "error"} :
          IF r = "ok"
          THEN /\ restr' = [restr EXCEPT ![The(task[p].member)] = Some(task[p].ms)]
               /\ task' = [task EXCEPT ![p] =
                     [task[p] EXCEPT !.pc = "dur_edit", !.ev = Append(@, "restrict")]]
          ELSE /\ task' = [task EXCEPT ![p] =
                     Finish([task[p] EXCEPT !.ev = Append(@, "restrict_" \o r)],
                            TimeoutFailure(r))]
               /\ UNCHANGED restr
    /\ UNCHANGED <<store, notices, returned, hist, calc>>

\* variants of the report: one that never reports the partial outcome, one
\* that reports full success for every mute / timeout case
DurOutcomeNoPartial(is_timeout_case, member_for_timeout) ==
    IF is_timeout_case /\ member_for_timeout # None THEN "FullSuccess"
    ELSE "NotTimeoutCase"
DurOutcomeSwallow(is_timeout_case, member_for_timeout) ==
    IF is_timeout_case THEN "FullSuccess" ELSE "NotTimeoutCase"
\* the report of duration once the edit is saved
DurOutcome(is_timeout_case, member_for_timeout) ==
    IF is_timeout_case /\ member_for_timeout # None THEN "FullSuccess"
    ELSE IF is_timeout_case THEN "PartialSuccess"
    ELSE "NotTimeoutCase"

\* a variant of the edit step that lifts the timeout again when the edit fails
DurEditCompensates(p) ==
    /\ task[p].pc = "dur_edit"
    /\ \E ok \in BOOLEAN :
          IF ok
          THEN /\ notices' = [notices EXCEPT ![The(task[p].msg).id] = The(task[p].edited)]
               /\ task' = [task EXCEPT ![p] =
                     Finish([task[p] EXCEPT !.ev = Append(@, "edit")],
                            DurOutcome(task[p].isTimeout, task[p].member))]
               /\ hist' = [hist EXCEPT !.edits = @ + 1]
               /\ UNCHANGED restr
          ELSE /\ task' = [task EXCEPT ![p] = Finish(task[p], "EditFailed")]
               /\ restr' = IF task[p].member # None
                           THEN [restr EXCEPT ![The(task[p].member)] = None]
                           ELSE restr
               /\ UNCHANGED <<notices, hist>>
    /\ UNCHANGED <<store, returned, calc>>

\* a variant of the edit step that fetches the message again and retries when
\* the edit fails
DurEditRetry(p) ==
    /\ task[p].pc = "dur_edit"
    /\ \E ok \in BOOLEAN :
          IF ok
          THEN /\ notices' = [notices EXCEPT ![The(task[p].msg).id] = The(task[p].edited)]
               /\ task' = [task EXCEPT ![p] =
                     Finish([task[p] EXCEPT !.ev = Append(@, "edit")],
                            DurOutcome(task[p].isTimeout, task[p].member))]
               /\ hist' = [hist EXCEPT !.edits = @ + 1]
          ELSE /\ task' = [task EXCEPT ![p] = [task[p] EXCEPT !.pc = "dur_msg"]]
               /\ UNCHANGED <<notices, hist>>
    /\ UNCHANGED <<store, restr, returned, calc>>

\* message.edit(embed=edited), then the report to the invoker
DurEdit(p) ==
    /\ task[p].pc = "dur_edit"
    /\ \E ok \in BOOLEAN :
          IF ok
          THEN /\ notices' = [notices EXCEPT ![The(task[p].msg).id] = The(task[p].edited)]
               /\ task' = [task EXCEPT ![p] =
                     Finish([task[p] EXCEPT !.ev = Append(@, "edit")],
                            DurOutcome(task[p].isTimeout, task[p].member))]
               /\ hist' = [hist EXCEPT !.edits = @ + 1]
          ELSE /\ task' = [task EXCEPT ![p] = Finish(task[p], "EditFailed")]
               /\ UNCHANGED <<notices, hist>>
    /\ UNCHANGED <<store, restr, returned, calc>>

----------------------------------------------------------------------------
(* Direct calls of the time helpers *)

\* parse_duration_ms(s)
ParseCall ==
    /\ \E text \in ParseTexts :
          calc' = [op |-> "parse", text |-> text, ms |-> 0, human |-> <<>>,
                   parsed |-> parse_duration_ms(text)]
    /\ UNCHANGED <<store, task, notices, restr, returned, hist>>

\* parse_duration_ms(humanize_ms(ms))
RoundTripCall ==
    /\ \E ms \in HumanizeInputs :
          calc' = [op |-> "roundtrip", text |-> <<>>, ms |-> ms,
                   human |-> humanize_ms(ms),
                   parsed |-> parse_duration_ms(humanize_ms(ms))]
    /\ UNCHANGED <<store, task, notices, restr, returned, hist>>

----------------------------------------------------------------------------
(* Specifications *)

Step(p) ==
    \/ Fetch(p)
    \/ Create(p)
    \/ Commit(p)
    \/ Enforce(p)
    \/ LcSend(p)
    \/ LcSummary(p)
    \/ ReasonMsg(p)
    \/ ReasonEdit(p)
    \/ DurMsg(p)
    \/ DurTimeout(p)
    \/ DurEdit(p)

\* serialized access: one command at a time per community
Next ==
    \E p \in Procs :
        \/ WarnStart(p, TRUE)
        \/ EnforceStart(p, TRUE)
        \/ ModlogStart(p, TRUE)
        \/ ClearwarnsStart(p, TRUE)
        \/ ReasonStart(p, TRUE)
        \/ DurationStart(p, TRUE)
        \/ LogStart(p, TRUE)
        \/ Step(p)

Spec == Init /\ [][Next]_vars

\* no serialization: commands of the two tasks interleave at every await
NextConc ==
    \E p \in Procs :
        \/ WarnStart(p, FALSE)
        \/ EnforceStart(p, FALSE)
        \/ ModlogStart(p, FALSE)
        \/ ClearwarnsStart(p, FALSE)
        \/ ReasonStart(p, FALSE)
        \/ DurationStart(p, FALSE)
        \/ LogStart(p, FALSE)
        \/ Step(p)

SpecConc == Init /\ [][NextConc]_vars

\* the enforcement commands and the mod-log setting, one after another
LogCaseStep(p) ==
    \/ Fetch(p)
    \/ Create(p)
    \/ Commit(p)
    \/ Enforce(p)
    \/ LcSend(p)
    \/ LcSummary(p)

NextEnforce ==
    \E p \in Procs :
        \/ EnforceAny(p)
        \/ ModlogStart(p, TRUE)
        \/ LogCaseStep(p)

SpecEnforce == Init /\ [][NextEnforce]_vars

\* the time helpers called on their own
NextTime == ParseCall \/ RoundTripCall

SpecTime == Init /\ [][NextTime]_vars

----------------------------------------------------------------------------
(* Properties *)

\* The grammar of a duration text: pairs <digits><unit> with the units s, m,
\* h, d, w in either case, whitespace ignored, and an optional last run of
\* digits without a unit, counted as seconds. Values in units of 1000 ms.
RefUnit(ch) ==
    CASE ch = "s" -> 1 [] ch = "m" -> 60 [] ch = "h" -> 60 * 60
      [] ch = "d" -> 24 * 60 * 60 [] ch = "w" -> 7 * 24 * 60 * 60
RefUnits == {"s", "m", "h", "d", "w"}
RefDigits == {"0", "1", "2", "3", "4", "5", "6", "7", "8", "9"}
\* the text without its whitespace, in lower case
Squeezed(s) == Lower(SelectSeq(s, LAMBDA ch : ch # " "))
\* the length of the run of digits a text starts with
RECURSIVE DigitRun(_)
DigitRun(t) ==
    IF Len(t) > 0 /\ t[1] \in RefDigits THEN 1 + DigitRun(Tail(t)) ELSE 0
\* the sum of the pairs of a squeezed text, None when it is not of the grammar
RECURSIVE RefSum(_)
RefSum(t) ==
    IF Len(t) = 0 THEN Some(0)
    ELSE LET n == DigitRun(t)
         IN  IF n = 0 THEN None
             ELSE IF n = Len(t) THEN Some(IntOf(t))
             ELSE IF t[n + 1] \notin RefUnits THEN None
             ELSE LET rest == RefSum(SubSeq(t, n + 2, Len(t)))
                  IN  IF rest = None THEN None
                      ELSE Some(IntOf(SubSeq(t, 1, n)) * RefUnit(t[n + 1]) + The(rest))
\* what the grammar gives for a text: invalid (None) also for a total of 0
RefParse(s) ==
    IF RefSum(Squeezed(s)) \in {None, Some(0)} THEN None ELSE RefSum(Squeezed(s))

LogCmds == {"warn", "enforce"}
\* the pcs of a _log_case invocation once its case number is committed
AfterAlloc == {"lc_send", "idx_fetch", "idx_commit", "lc_summary"}
CaseIndexOf(mods) == Get(mods, "case_index", EmptyDict)
Count(seq, e) == Cardinality({i \in 1..Len(seq) : seq[i] = e})
Pos(seq, e) == CHOOSE i \in 1..Len(seq) : seq[i] = e /\ \A j \in 1..(i - 1) : seq[j] # e
Has(seq, e) == \E i \in 1..Len(seq) : seq[i] = e

\* C1: serialized _log_case invocations, none of which raised, starting from
\* a fresh row, return 1, 2, ..., N in this order, never None.
C1_ReturnsOneToN ==
    (hist.gaps = {} /\ Len(returned) = hist.calls /\ \A p \in Procs : Resting(p))
    => \A i \in 1..Len(returned) : returned[i] = Some(i)

\* C2: two _log_case invocations that have both fetched the document before
\* either committed hold the same case number, one more than the stored
\* case_seq; both go on to publish it.
C2_RaceSameNumber ==
    \A p, q \in Procs :
        (p # q /\ task[p].pc = "lc_commit" /\ task[q].pc = "lc_commit"
              /\ task[p].fresh /\ task[q].fresh)
        => /\ task[p].case_no = task[q].case_no
           /\ task[p].case_no = SeqOf(store.modules) + 1

\* C2 witness: two published notices carry the same case number
C2_DuplicateNotices ==
    \E i, j \in 1..Len(notices) : i # j /\ notices[i].author[1] = notices[j].author[1]

\* what a write of the document took away: a smaller case_seq, a case index
\* entry gone, or a warning list shortened by another command than the
\* clearwarns of that member
Loses(old, new, t) ==
    \/ SeqOf(new) < SeqOf(old)
    \/ \E k \in DOMAIN CaseIndexOf(old) : k \notin DOMAIN CaseIndexOf(new)
    \/ \E u \in DOMAIN Get(old, "warns", EmptyDict) :
          /\ ~(t.pc = "cw_commit" /\ Str(t.target) = u)
          /\ Len(Get(Get(new, "warns", EmptyDict), u, <<>>))
                < Len(Get(old, "warns", EmptyDict)[u])

\* C3: a committed case_seq increment, index entry or warning is lost exactly
\* by a whole-document write of a task that fetched before another commit.
C3_LossOnlyByStaleWrite ==
    [][\A p \in Procs :
          (task[p].pc \in CommitSites /\ task'[p].pc # task[p].pc
              /\ Loses(store.modules, store'.modules, task[p]))
          => ~task[p].fresh]_vars

\* C3 witness: the stored case_seq is below one that was committed before
C3_SeqWentBack == SeqOf(store.modules) < hist.maxSeq

\* C4: case_seq starts at 0 and changes only in the commit of _log_case's
\* allocation, where it grows by exactly 1.
C4_SeqOnlyGrowsByOne ==
    /\ SeqOf(store.modules) = 0
    /\ [][SeqOf(store'.modules) # SeqOf(store.modules)
            => /\ SeqOf(store'.modules) = SeqOf(store.modules) + 1
               /\ \E p \in Procs : task[p].pc = "lc_commit" /\ task'[p].pc # "lc_commit"]_vars

\* C4 witness: two allocations, a mod-log channel, a notice edit and a
\* clearwarns have all happened
C4_ManyOperations ==
    /\ SeqOf(store.modules) = 2
    /\ get_modlog_channel_id(store.modules) # None
    /\ hist.edits > 0
    /\ task[Worker].outcome = "Cleared"

\* C5: within one _log_case the increment is committed before the notice is
\* published, and the notice is published before the index entry is written.
C5_AllocThenPublishThenIndex ==
    \A p \in Procs :
        LET ev == task[p].ev
        IN  /\ Has(ev, "pub") => (Has(ev, "inc") /\ Pos(ev, "inc") < Pos(ev, "pub"))
            /\ Has(ev, "idx") => (Has(ev, "pub") /\ Pos(ev, "pub") < Pos(ev, "idx"))

\* C5 witness: an invocation that did all three
C5_AllThreeSteps == \E p \in Procs : task[p].ev = <<"inc", "pub", "idx">>

\* C6: every case index entry is the location of a notice that was published
\* for that case number.
C6_IndexPointsAtNotice ==
    \A k \in DOMAIN CaseIndexOf(store.modules) :
        LET loc == EntryLocation(CaseIndexOf(store.modules)[k])
        IN  /\ loc.id \in 1..Len(notices)
            /\ notices[loc.id].ch = loc.ch
            /\ notices[loc.id].author[1] = IntOf(k)

\* C6 witness: two indexed cases, one published in the mod-log channel
C6_TwoIndexed ==
    /\ Cardinality(DOMAIN CaseIndexOf(store.modules)) = 2
    /\ \E i \in 1..Len(notices) : notices[i].ch # CtxChannel

\* what the duration command reports for a case that is not in the index
DurationNotIndexed(text) ==
    LET ms == parse_duration_ms(text)
    IN  IF ms = ValueError THEN "Raised"
        ELSE IF ms = None \/ The(ms) <= 0 THEN "InvalidDuration"
        ELSE IF The(ms) > MaxMs THEN "DurationTooLong"
        ELSE "NotFound"

\* the part of C7 that does not depend on the amendment's arguments
GapStaysGap(n) ==
    /\ n \in 1..SeqOf(store.modules)
    /\ Str(n) \notin DOMAIN CaseIndexOf(store.modules)
    /\ \A i \in 1..Len(returned) : returned[i] # Some(n)
    /\ \A p \in Procs :
          /\ (task[p].cmd \in LogCmds /\ task[p].case_no = n)
                => (task[p].pc = "done" /\ task[p].outcome = "Raised" /\ task[p].ret = None)
          /\ (task[p].cmd \in LogCmds /\ task[p].pc \in AfterAlloc)
                => task[p].case_no = SeqOf(store.modules)
          /\ (task[p].pc = "done" /\ task[p].cmd = "reason" /\ task[p].caseArg = n)
                => task[p].outcome = "NotFound"

\* C7 as stated: after a failed publish the failure is raised, the number
\* stays consumed and unindexed, and reason and duration for it report
\* NotFound.
C7_GapReportsNotFound ==
    \A n \in hist.gaps :
        /\ GapStaysGap(n)
        /\ \A p \in Procs :
              (task[p].pc = "done" /\ task[p].cmd = "duration" /\ task[p].caseArg = n)
                 => task[p].outcome = "NotFound"

\* C7 amended: as above, but duration validates its text first, so it
\* reports NotFound for the number only when the text is a valid duration of
\* at most 28 days; with any other text it ends before the lookup, with
\* InvalidDuration, DurationTooLong or the error the parser raised.
C7_GapReportsNotFoundForValidText ==
    \A n \in hist.gaps :
        /\ GapStaysGap(n)
        /\ \A p \in Procs :
              (task[p].pc = "done" /\ task[p].cmd = "duration" /\ task[p].caseArg = n)
                 => task[p].outcome = DurationNotIndexed(task[p].dur)

\* C7 witness: the number after the gap was returned, and duration with a
\* valid text reported NotFound for the gap
C7_GapThenNext ==
    \E n \in hist.gaps :
        /\ \E i \in 1..Len(returned) : returned[i] = Some(n + 1)
        /\ task[Worker].pc = "done" /\ task[Worker].cmd = "duration"
        /\ task[Worker].caseArg = n /\ task[Worker].outcome = "NotFound"

\* C8: a _log_case invocation, complete or failed after its allocation,
\* incremented case_seq exactly once, published at most one notice and wrote
\* at most one index entry.
C8_OneIncrementAtMostOnePublishAndIndex ==
    \A p \in Procs :
        LET t == task[p]
        IN  (t.cmd \in LogCmds /\
               (t.pc \in AfterAlloc \/ (t.pc = "done" /\ t.outcome \in {"Returned", "Raised"})))
            => /\ Count(t.ev, "inc") = 1
               /\ Count(t.ev, "seq") = 0
               /\ Count(t.ev, "pub") <= 1
               /\ Count(t.ev, "idx") <= 1

\* C8 witness: an invocation that failed after publishing and indexing
C8_FailedAfterIndex ==
    \E p \in Procs : /\ task[p].pc = "done" /\ task[p].outcome = "Raised"
                     /\ task[p].ev = <<"inc", "pub", "idx">>

\* C9: with no mod-log channel configured, _log_case publishes the notice in
\* the invoking channel, indexes it and returns the case number.
C9_UnsetFallsBackToInvokingChannel ==
    \A p \in Procs :
        LET t == task[p]
        IN  (t.pc = "done" /\ t.cmd \in LogCmds /\ t.outcome = "Returned"
               /\ get_modlog_channel_id(store.modules) = None)
            => /\ t.ret = Some(t.case_no)
               /\ Str(t.case_no) \in DOMAIN CaseIndexOf(store.modules)
               /\ \E i \in 1..Len(notices) :
                     /\ notices[i].ch = CtxChannel
                     /\ notices[i].author[1] = t.case_no
                     /\ EntryLocation(CaseIndexOf(store.modules)[Str(t.case_no)])
                           = [ch |-> CtxChannel, id |-> i]

\* C10: with a configured mod-log channel that does not resolve, the notice
\* goes to the invoking channel and the index entry records that channel.
C10_UnresolvedFallsBackAndIndexesActual ==
    \A p \in Procs :
        LET t == task[p]
        IN  (t.pc \in {"idx_fetch", "idx_commit", "lc_summary"} /\ t.chan = None)
            => /\ The(t.msg).ch = CtxChannel
               /\ notices[The(t.msg).id].ch = CtxChannel
               /\ notices[The(t.msg).id].author[1] = t.case_no
               /\ (t.pc = "idx_commit") =>
                     EntryLocation(CaseIndexOf(t.cfg)[Str(t.case_no)]) = The(t.msg)
               /\ (t.pc = "lc_summary") =>
                     EntryLocation(CaseIndexOf(store.modules)[Str(t.case_no)]) = The(t.msg)

\* C10 witness: the configured channel is another one than the invoking
\* channel, it did not resolve, and the entry has been written
C10_UnresolvedIndexed ==
    \E p \in Procs :
        /\ task[p].pc = "lc_summary" /\ task[p].chan = None
        /\ get_modlog_channel_id(store.modules) \notin {None, Some(CtxChannel)}

----------------------------------------------------------------------------
(* Properties of the index, the warnings and the amendment commands *)

WarnsOf(mods) == Get(mods, "warns", EmptyDict)
\* the step is one of task p
StepOf(p) == task'[p] # task[p]

\* C11: under serialized access a case index entry, once written, stays in
\* the index with the same channel, message and user in every later state.
C11_IndexEntriesStay ==
    [][\A k \in DOMAIN CaseIndexOf(store.modules) :
          /\ k \in DOMAIN CaseIndexOf(store'.modules)
          /\ CaseIndexOf(store'.modules)[k] = CaseIndexOf(store.modules)[k]]_vars

\* C11 witness: two entries, and after them a notice edit and a clearwarns
C11_TwoEntriesAndMore ==
    /\ DOMAIN CaseIndexOf(store.modules) = {Str(1), Str(2)}
    /\ hist.edits > 0
    /\ task[Worker].outcome = "Cleared"

\* C12: reason writes the warnings only after its edit of the notice was
\* saved; when it ends with NotFound, NoticeUnavailable or a failed edit it
\* has written nothing to the modules document, and for NotFound and
\* NoticeUnavailable the edit was not attempted.
C12_PatchOnlyAfterEdit ==
    [][\A p \in Procs :
          (task[p].cmd = "reason" /\ StepOf(p)) =>
             /\ (store'.modules # store.modules) =>
                   (task[p].pc = "patch_commit" /\ Has(task[p].ev, "edit"))
             /\ (task'[p].pc = "done" /\ task'[p].outcome
                       \in {"NotFound", "NoticeUnavailable", "EditFailed"}) =>
                   /\ store'.modules = store.modules
                   /\ notices' = notices
                   /\ task'[p].ev = <<>>
             /\ (task'[p].pc = "done"
                       /\ task'[p].outcome \in {"NotFound", "NoticeUnavailable"}) =>
                   task[p].pc \in {"reason_fetch", "create", "reason_msg"}
             /\ (task'[p].pc = "done" /\ task'[p].outcome = "EditFailed") =>
                   task[p].pc = "reason_edit"]_vars

\* the user a case is indexed under has warnings stored
IndexedUserHasWarnings(n) ==
    /\ Str(n) \in DOMAIN CaseIndexOf(store.modules)
    /\ HasWarnings(store.modules, EntryUser(CaseIndexOf(store.modules)[Str(n)]))

\* C12 witness: a reason command whose edit failed, for a case of a user who
\* has a warning with the old reason
C12_EditFailedWithWarnings ==
    \E p \in Procs :
        /\ task[p].pc = "done" /\ task[p].cmd = "reason"
        /\ task[p].outcome = "EditFailed"
        /\ IndexedUserHasWarnings(task[p].caseArg)

\* C13: the warning patch of reason changes the reason of the last warning
\* of that user and nothing else: the users, the number and order of their
\* warnings, every other record, the moderator and timestamp of the last
\* one, and the rest of the document stay as they were.
C13_PatchChangesOnlyLastReason ==
    [][\A p \in Procs :
          (task[p].pc = "patch_commit" /\ StepOf(p)) =>
             LET old == WarnsOf(store.modules)
                 new == WarnsOf(store'.modules)
                 u == Str(The(task[p].uid))
             IN  /\ DOMAIN store'.modules = DOMAIN store.modules
                 /\ \A key \in DOMAIN store.modules \ {"warns"} :
                       store'.modules[key] = store.modules[key]
                 /\ DOMAIN new = DOMAIN old
                 /\ u \in DOMAIN old /\ Len(old[u]) >= 1
                 /\ \A v \in DOMAIN old :
                       /\ Len(new[v]) = Len(old[v])
                       /\ \A i \in 1..Len(old[v]) :
                             (v # u \/ i # Len(old[v])) => new[v][i] = old[v][i]
                 /\ new[u][Len(old[u])].reason = task[p].reason
                 /\ new[u][Len(old[u])].moderator = old[u][Len(old[u])].moderator
                 /\ new[u][Len(old[u])].timestamp = old[u][Len(old[u])].timestamp]_vars

\* C13 witness: a user with two warnings of which the last, and only the
\* last, carries the amended reason
C13_SecondOfTwoPatched ==
    \E u \in DOMAIN WarnsOf(store.modules) :
        LET ws == WarnsOf(store.modules)[u]
        IN  /\ Len(ws) = 2
            /\ ws[1].reason \in Reasons
            /\ ws[2].reason \in NewReasons

\* a finished duration command
DurationDone(p) == task[p].pc = "done" /\ task[p].cmd = "duration"
\* the pcs of duration from the index lookup on
DurSteps == {"dur_fetch", "dur_msg", "dur_timeout", "dur_edit"}
Indexed(n) == Str(n) \in DOMAIN CaseIndexOf(store.modules)

\* C14 as stated: duration looks the case up first, so for a case number
\* that is not in the index it reports NotFound whatever the text is.
C14_LookupBeforeValidation ==
    \A p \in Procs :
        (DurationDone(p) /\ ~Indexed(task[p].caseArg))
           => task[p].outcome = "NotFound"

\* C14 amended: duration validates its text before the index lookup. A text
\* for which the parser returns invalid gives InvalidDuration, one above 28
\* days gives DurationTooLong and one on which the parser raises ends the
\* command with that error, whether the case is indexed or not; the lookup
\* is made only with a valid text, and only then a case that is not indexed
\* gives NotFound.
C14_ValidationBeforeLookup ==
    \A p \in Procs :
        LET ms == parse_duration_ms(task[p].dur)
        IN  /\ (task[p].cmd = "duration" /\ task[p].pc \in DurSteps \cup {"create"})
                  => (ms \notin {None, ValueError} /\ The(ms) > 0 /\ The(ms) <= MaxMs)
            /\ DurationDone(p) =>
                  /\ (ms = None) => task[p].outcome = "InvalidDuration"
                  /\ (ms = ValueError) => task[p].outcome = "Raised"
                  /\ (ms \notin {None, ValueError} /\ The(ms) > MaxMs)
                        => task[p].outcome = "DurationTooLong"
                  /\ (ms \notin {None, ValueError} /\ The(ms) <= MaxMs
                        /\ ~Indexed(task[p].caseArg))
                        => task[p].outcome = "NotFound"

\* C14 witness: a case number that is not indexed, a text above the cap, and
\* the report is DurationTooLong
C14_TooLongForMissingCase ==
    \E p \in Procs :
        /\ DurationDone(p) /\ ~Indexed(task[p].caseArg)
        /\ SeqOf(store.modules) > 0
        /\ task[p].outcome = "DurationTooLong"

\* a duration command that ends in its first step with the given report and
\* touches neither the store, nor a notice, nor a timeout
RefusedAtOnce(p, report) ==
    /\ task'[p].pc = "done" /\ task'[p].outcome = report /\ task'[p].ev = <<>>
    /\ store' = store /\ notices' = notices /\ restr' = restr

\* C15: duration with an unparseable or zero text reports InvalidDuration,
\* with more than 28 days ("40d") DurationTooLong, and goes on with exactly
\* 28 days; a refused command fetches and edits no notice and sets no timeout.
C15_InvalidAndTooLongRefused ==
    [][\A p \in Procs :
          (Resting(p) /\ task'[p].cmd = "duration" /\ StepOf(p)) =>
             LET text == task'[p].dur
                 ms == RefParse(text)
             IN  /\ (ms = None) => RefusedAtOnce(p, "InvalidDuration")
                 /\ (ms # None /\ The(ms) > 28 * 86400)
                       => RefusedAtOnce(p, "DurationTooLong")
                 /\ (ms # None /\ The(ms) <= 28 * 86400)
                       => (task'[p].pc = "dur_fetch" /\ task'[p].ms = The(ms))
                 /\ (text \in {<<"0">>, <<"5", "x">>, <<"5", "^2">>})
                       => task'[p].outcome = "InvalidDuration"
                 /\ (text = <<"4", "0", "d">>) => task'[p].outcome = "DurationTooLong"
                 /\ (text = <<"2", "8", "d">>)
                       => (task'[p].pc = "dur_fetch" /\ task'[p].ms = 2419200)]_vars

\* the notice a duration command works on
NoticeOf(t) == notices[The(t.msg).id]
\* the value of the Duration field of a notice, None when it has none
DurationField(embed) ==
    IF \E i \in 1..Len(embed.fields) : embed.fields[i].name = "Duration"
    THEN Some(embed.fields[CHOOSE i \in 1..Len(embed.fields) :
                              embed.fields[i].name = "Duration"].value)
    ELSE None
\* new is old with its Duration field set to value, replaced where it was or
\* appended, and nothing else changed
OnlyDurationSet(old, new, value) ==
    /\ new.ch = old.ch /\ new.author = old.author
    /\ DurationField(new) = Some(value)
    /\ Len(new.fields) = Len(old.fields) + (IF DurationField(old) = None THEN 1 ELSE 0)
    /\ \A i \in 1..Len(old.fields) :
          /\ new.fields[i].name = old.fields[i].name
          /\ old.fields[i].name # "Duration" => new.fields[i] = old.fields[i]
\* the step edits the notice of task p that way and no other notice
EditsOnlyDuration(p) ==
    /\ Len(notices') = Len(notices)
    /\ \A i \in 1..Len(notices) :
          IF i = The(task[p].msg).id
          THEN OnlyDurationSet(notices[i], notices'[i], humanize_ms(task[p].ms))
          ELSE notices'[i] = notices[i]
\* a step of a duration command that has fetched its notice
DurStepOf(p) ==
    /\ task[p].cmd = "duration" /\ StepOf(p)
    /\ task[p].pc \in {"dur_msg", "dur_timeout", "dur_edit"}

\* C16: for an indexed case whose notice names another action than mute or
\* timeout (Warn, Kick) duration never calls the timeout and changes nothing
\* but the Duration field of that notice.
C16_OtherActionsOnlyAnnotated ==
    [][\A p \in Procs :
          (DurStepOf(p) /\ NoticeOf(task[p]).author[2] \in {"Warn", "Kick"}) =>
             /\ task'[p].pc # "dur_timeout"
             /\ restr' = restr /\ store' = store
             /\ task'[p].pc = "done" =>
                   /\ task'[p].outcome
                         \in {"NotTimeoutCase", "NoticeUnavailable", "EditFailed"}
                   /\ IF task'[p].outcome = "NotTimeoutCase"
                      THEN EditsOnlyDuration(p) ELSE notices' = notices
             /\ task'[p].pc # "done" => notices' = notices]_vars

\* C16 witness: the notice of a kick carries a Duration field
C16_KickAnnotated ==
    \E p \in Procs, i \in 1..Len(notices) :
        /\ DurationDone(p) /\ task[p].outcome = "NotTimeoutCase"
        /\ notices[i].author[1] = task[p].caseArg
        /\ notices[i].author[2] = "Kick"
        /\ DurationField(notices[i]) = Some(humanize_ms(The(parse_duration_ms(task[p].dur))))

\* C17: for a mute case whose member could not be resolved, duration calls no
\* timeout, edits the Duration field of the notice and reports
\* PartialSuccess, unless the edit itself fails.
C17_UnresolvedMemberPartial ==
    [][\A p \in Procs :
          /\ (task[p].cmd = "duration" /\ task'[p].pc = "dur_timeout")
                => task'[p].member # None
          /\ (DurStepOf(p) /\ task[p].pc = "dur_edit"
                /\ NoticeOf(task[p]).author[2] = "Mute" /\ task[p].member = None) =>
                /\ task[p].ev = <<>>
                /\ restr' = restr
                /\ task'[p].pc = "done"
                /\ task'[p].outcome \in {"PartialSuccess", "EditFailed"}
                /\ IF task'[p].outcome = "PartialSuccess"
                   THEN EditsOnlyDuration(p) /\ task'[p].ev = <<"edit">>
                   ELSE notices' = notices]_vars

\* C17 witness: PartialSuccess, the notice of the mute shows the new
\* duration, and the member's timeout is still the one the mute set
C17_PartialAndTimeoutAsBefore ==
    \E p \in Procs, i \in 1..Len(notices) :
        /\ DurationDone(p) /\ task[p].outcome = "PartialSuccess"
        /\ notices[i].author[1] = task[p].caseArg
        /\ notices[i].author[2] = "Mute"
        /\ DurationField(notices[i]) = Some(<<"4", "w">>)
        /\ restr[notices[i].author[3]] = Some(600)

\* C18 as stated: when the timeout call fails with another exception than
\* Forbidden, duration still edits the notice and reports PartialSuccess.
C18_GenericFailureStillEdits ==
    \A p \in Procs :
        (DurationDone(p) /\ Has(task[p].ev, "restrict_error"))
           => (task[p].outcome = "PartialSuccess" /\ Has(task[p].ev, "edit"))

\* C18 amended: when the timeout call fails with another exception than
\* Forbidden, duration ends there: the notice is not edited, no timeout is
\* changed, and the report is RestrictionFailed, which is none of
\* PartialSuccess, FullSuccess and Denied.
C18_GenericFailureStops ==
    [][\A p \in Procs :
          (DurStepOf(p) /\ Has(task'[p].ev, "restrict_error")) =>
             /\ task[p].pc = "dur_timeout"
             /\ task'[p].pc = "done"
             /\ task'[p].outcome = "RestrictionFailed"
             /\ task'[p].outcome \notin {"PartialSuccess", "FullSuccess", "Denied"}
             /\ task'[p].ev = <<"restrict_error">>
             /\ notices' = notices /\ restr' = restr /\ store' = store]_vars

\* C18 witness: RestrictionFailed, and the notice of the mute still shows
\* the duration the mute was given
C18_FailedAndNoticeAsBefore ==
    \E p \in Procs, i \in 1..Len(notices) :
        /\ DurationDone(p) /\ task[p].outcome = "RestrictionFailed"
        /\ notices[i].author[1] = task[p].caseArg
        /\ DurationField(notices[i]) \in {Some(d) : d \in MuteDurations}

\* C19: for a mute case the timeout call comes before the edit of the
\* notice; when it is refused with Forbidden the report is Denied, which is
\* none of NotFound, RestrictionFailed and PartialSuccess, and the notice is
\* not edited.
C19_TimeoutBeforeEditAndDenied ==
    [][\A p \in Procs :
          DurStepOf(p) =>
             /\ task[p].pc = "dur_timeout" => ~Has(task[p].ev, "edit")
             /\ (task[p].pc = "dur_edit" /\ task[p].member # None)
                   => task[p].ev = <<"restrict">>
             /\ Has(task'[p].ev, "restrict_forbidden") =>
                   /\ task[p].pc = "dur_timeout"
                   /\ task'[p].pc = "done"
                   /\ task'[p].outcome = "Denied"
                   /\ task'[p].outcome
                         \notin {"NotFound", "RestrictionFailed", "PartialSuccess"}
                   /\ task'[p].ev = <<"restrict_forbidden">>
                   /\ notices' = notices /\ restr' = restr]_vars

\* C19 witness: a refused timeout call reported as Denied
C19_DeniedReported ==
    \E p \in Procs :
        /\ DurationDone(p) /\ task[p].outcome = "Denied"
        /\ task[p].ev = <<"restrict_forbidden">>

\* C20: duration reports FullSuccess only when, in that invocation, the
\* timeout was set to the new duration and then the notice was edited; an
\* invocation that did not set the timeout reports something else.
C20_FullSuccessMeansBoth ==
    \A p \in Procs :
        DurationDone(p) =>
           /\ task[p].outcome = "FullSuccess" =>
                 /\ task[p].ev = <<"restrict", "edit">>
                 /\ \E i \in 1..Len(notices) :
                       /\ notices[i].author[1] = task[p].caseArg
                       /\ restr[notices[i].author[3]] = parse_duration_ms(task[p].dur)
                       /\ DurationField(notices[i])
                             = Some(humanize_ms(The(parse_duration_ms(task[p].dur))))
           /\ ~Has(task[p].ev, "restrict") => task[p].outcome # "FullSuccess"

\* C20 witness: FullSuccess with exactly 28 days
C20_FullSuccessAtCap ==
    \E p \in Procs :
        /\ DurationDone(p) /\ task[p].outcome = "FullSuccess"
        /\ task[p].dur = <<"2", "8", "d">>
        /\ restr[1] = Some(2419200)

----------------------------------------------------------------------------
(* Properties of the time helpers *)

\* C21: parse_duration_ms gives for every text what the grammar gives: the
\* sum for a text of the grammar ("1h30m" is 5,400,000 ms, "90" is 90,000 ms)
\* and invalid for the empty text, an unknown character, a unit without
\* digits and a total of 0.
C21_ParseAgreesWithGrammar ==
    calc.op = "parse" =>
       /\ calc.parsed = RefParse(calc.text)
       /\ calc.text = <<"1", "h", "3", "0", "m">> => calc.parsed = Some(5400)
       /\ calc.text = <<"9", "0">> => calc.parsed = Some(90)
       /\ calc.text \in {<<>>, <<"a", "b", "c">>, <<"9", "x">>, <<"h">>, <<"0">>,
                         <<"0", "s">>} => calc.parsed = None

\* C22 as stated: parse(humanize(x)) = x for every multiple x of 1000 ms.
C22_RoundTripAll ==
    calc.op = "roundtrip" => calc.parsed = Some(calc.ms)

\* C22 amended: parse(humanize(x)) = x for every positive multiple x of
\* 1000 ms; humanize(0) is "0s", which parse rejects as a zero duration.
C22_RoundTripPositive ==
    calc.op = "roundtrip" =>
       /\ calc.ms > 0 => calc.parsed = Some(calc.ms)
       /\ calc.ms = 0 => (calc.human = <<"0", "s">> /\ calc.parsed = None)

\* C22 witness: a duration with a part in every unit came back unchanged
C22_AllUnitsRoundTrip ==
    /\ calc.op = "roundtrip"
    /\ calc.human = <<"1", "w", "6", "d", "2", "3", "h", "5", "9", "m", "1", "s">>
    /\ calc.parsed = Some(604800 + 6 * 86400 + 23 * 3600 + 59 * 60 + 1)

----------------------------------------------------------------------------
(* Properties of the warnings, the frame and the amendments *)

\* the step in which the command of task p ends
Ends(p, cmd) == task[p].cmd = cmd /\ task[p].pc # "done" /\ task'[p].pc = "done"

\* C23: clearwarns of a member without warnings reports that there are none
\* and leaves the document as it is; of a member with warnings it reports
\* the clearing, after which warns lists nothing for the member, while the
\* warnings of every other member, case_seq and case_index are as before.
C23_ClearRemovesOnlyTheSubject ==
    [][\A p \in Procs :
          Ends(p, "clearwarns") =>
             LET member == task[p].target
                 had == list_warnings(store.modules, member) # <<>>
             IN  /\ task'[p].outcome = (IF had THEN "Cleared" ELSE "NoWarnings")
                 /\ ~had => store'.modules = store.modules
                 /\ had =>
                       /\ list_warnings(store'.modules, member) = <<>>
                       /\ \A other \in Members \ {member} :
                             list_warnings(store'.modules, other)
                                = list_warnings(store.modules, other)
                       /\ SeqOf(store'.modules) = SeqOf(store.modules)
                       /\ get_case_index(store'.modules) = get_case_index(store.modules)
                       /\ get_modlog_channel_id(store'.modules)
                             = get_modlog_channel_id(store.modules)]_vars

\* C23 witness: the warnings of one member were cleared while another member
\* has a warning and a case is indexed
C23_ClearedBesideOthers ==
    /\ task[Worker].pc = "done" /\ task[Worker].cmd = "clearwarns"
    /\ task[Worker].outcome = "Cleared"
    /\ list_warnings(store.modules, task[Worker].target) = <<>>
    /\ \E other \in Members : list_warnings(store.modules, other) # <<>>
    /\ get_case_index(store.modules) # EmptyDict

\* the keys of the document this cog owns, and the rest of a document
LedgerKeys == {"case_seq", "modlog_channel_id", "case_index", "warns"}
Foreign(mods) == [k \in DOMAIN mods \ LedgerKeys |-> mods[k]]

\* C24: with the commands run one after another, no step of warn, mute,
\* kick, clearwarns, reason, duration or modlog changes a key of the
\* document other than case_seq, modlog_channel_id, case_index and warns.
C24_ForeignKeysKept ==
    [][(\A p \in Procs : task[p].cmd # "log")
          => Foreign(store'.modules) = Foreign(store.modules)]_vars

\* C24 witness: the Logs cog had its key in the document when clearwarns
\* wrote the document, which also holds an indexed case
C24_LedgerWroteBesideForeignKey ==
    /\ Foreign(store.modules) # EmptyDict
    /\ task[Worker].pc = "done" /\ task[Worker].cmd = "clearwarns"
    /\ task[Worker].outcome = "Cleared"
    /\ get_case_index(store.modules) # EmptyDict

\* the user of the index entry of a case, 0 when the case is not indexed
SubjectOf(mods, case_no) ==
    IF Lookup(mods, case_no) = None \/ EntryUser(The(Lookup(mods, case_no))) = None
    THEN 0 ELSE The(EntryUser(The(Lookup(mods, case_no))))
\* the action in the author line of the notice of an indexed case
ActionOfCase(mods, case_no) ==
    notices[EntryLocation(The(Lookup(mods, case_no))).id].author[2]

AmendCmds == {"reason", "duration"}
Amending(p) == task[p].cmd \in AmendCmds /\ ~Resting(p)
\* how far an amendment command has come: lookup, notice fetch (with the
\* type determination), restriction update, notice edit, warning patch, end
AmendRank(t) ==
    LET site == IF t.pc = "create" THEN t.resume ELSE t.pc
        r == CASE site \in {"reason_fetch", "dur_fetch"} -> 1
               [] site \in {"reason_msg", "dur_msg"} -> 2
               [] site = "dur_timeout" -> 3
               [] site \in {"reason_edit", "dur_edit"} -> 4
               [] site = "patch_fetch" -> 5
               [] site = "patch_commit" -> 6
               [] site = "done" -> 7
               [] OTHER -> 0
    IN  2 * r + (IF t.pc = "create" THEN 1 ELSE 0)
\* the reports of success and of failure of the amendment commands
DoneOutcomes == {"Updated", "FullSuccess", "PartialSuccess", "NotTimeoutCase"}
FailedOutcomes == {"Raised", "InvalidDuration", "DurationTooLong", "NotFound",
                   "NoticeUnavailable", "Denied", "RestrictionFailed", "EditFailed"}

\* C26: a reason or duration command is one pass without retry: every step
\* takes it further in the order lookup, notice fetch and type determination,
\* restriction update, notice edit (so the notice is fetched, the timeout
\* set and the notice edited at most once each), it is never stuck before
\* its end, and it ends with a report of success or of failure.
C26_SinglePassToAnEnd ==
    /\ [](\A p \in Procs : Amending(p) => ENABLED Step(p))
    /\ [][\A p \in Procs :
            /\ (Amending(p) /\ StepOf(p)) =>
                  /\ task'[p].cmd = task[p].cmd
                  /\ AmendRank(task'[p]) > AmendRank(task[p])
                  /\ Count(task'[p].ev, "edit") <= 1
                  /\ Count(task'[p].ev, "restrict") + Count(task'[p].ev, "restrict_forbidden")
                        + Count(task'[p].ev, "restrict_error") <= 1
            /\ (task'[p].cmd \in AmendCmds /\ task'[p].pc = "done" /\ StepOf(p)) =>
                  task'[p].outcome \in DoneOutcomes \cup FailedOutcomes]_vars

\* C26 witness: a duration command went through every step and ended with
\* full success, having set the timeout once and edited the notice once
C26_FullPassDone ==
    \E p \in Procs :
        /\ DurationDone(p) /\ task[p].outcome = "FullSuccess"
        /\ task[p].ev = <<"restrict", "edit">>

\* C27: with the commands run one after another, every key of case_index is a
\* case number between 1 and case_seq, so no entry exists for a number that
\* was not allocated and there are at most case_seq entries.
C27_IndexWithinSequence ==
    /\ \A key \in DOMAIN CaseIndexOf(store.modules) :
          \E n \in 1..SeqOf(store.modules) : key = Str(n)
    /\ Cardinality(DOMAIN CaseIndexOf(store.modules)) <= SeqOf(store.modules)

\* C27 witness: the last allocated number is indexed and an earlier one is not
C27_LastIndexedAfterGap ==
    /\ SeqOf(store.modules) = 2
    /\ DOMAIN CaseIndexOf(store.modules) = {Str(2)}

\* the reports of an enforcement command that did not enforce
RefusedOutcomes == {"InvalidTarget", "InvalidDuration", "DurationTooLong",
                    "EnforceFailed"}
\* the enforcement call of the command raised
EnforcementFailed(t) ==
    Has(t.ev, "enforce_forbidden") \/ Has(t.ev, "enforce_error")
\* what a step leaves of the ledger and the notices
LedgerUntouched ==
    /\ SeqOf(store'.modules) = SeqOf(store.modules)
    /\ CaseIndexOf(store'.modules) = CaseIndexOf(store.modules)
    /\ notices' = notices

\* C28: mute, unmute, kick, ban and unban call _log_case only after the
\* enforcement call succeeded. A mute whose duration is not of the grammar,
\* zero or above 28 days ends at once; a command that was refused or whose
\* enforcement call failed ends before _log_case, and from its start to its
\* end case_seq, case_index and the notices are as they were.
C28_NoCaseWithoutEnforcement ==
    [][\A p \in Procs :
          (task'[p].cmd = "enforce" /\ StepOf(p)) =>
             /\ (Resting(p) \/ task[p].pc = "enforce") => LedgerUntouched
             /\ (task'[p].pc = "lc_fetch") =>
                   (task[p].pc = "enforce" /\ ~EnforcementFailed(task'[p]))
             /\ EnforcementFailed(task'[p]) =>
                   (task'[p].pc = "done" /\ task'[p].outcome = "EnforceFailed")
             /\ (task'[p].pc = "done" /\ task'[p].outcome \in RefusedOutcomes) =>
                   /\ Resting(p) \/ task[p].pc = "enforce"
                   /\ task'[p].case_no = 0 - 1
                   /\ ~Has(task'[p].ev, "inc") /\ ~Has(task'[p].ev, "send")
             /\ (Resting(p) /\ task'[p].action = "Mute"
                   /\ (RefParse(task'[p].dur) = None
                         \/ The(RefParse(task'[p].dur)) > 28 * 86400)) =>
                   /\ task'[p].pc = "done"
                   /\ task'[p].case_no = 0 - 1 /\ task'[p].ev = <<>>
                   /\ restr' = restr]_vars

\* C28 witness: after one logged case an unban failed, and there is still
\* one case and one notice
C28_UnbanFailedNoCase ==
    /\ task[Worker].pc = "done" /\ task[Worker].cmd = "enforce"
    /\ task[Worker].action = "Unban" /\ task[Worker].outcome = "EnforceFailed"
    /\ SeqOf(store.modules) = 1 /\ Len(notices) = 1
    /\ DOMAIN CaseIndexOf(store.modules) = {Str(1)}

\* C29: a duration command for a mute case whose timeout call succeeded and
\* whose edit then failed ends with the report of the failed edit, not with
\* a report of success; the member's timeout stays the new one, no further
\* timeout call is made, and no step of the command has changed the notice.
C29_EditFailsAfterTimeoutSet ==
    [][\A p \in Procs :
          /\ (task'[p].cmd = "duration" /\ StepOf(p) /\ ~Has(task'[p].ev, "edit"))
                => notices' = notices
          /\ (Ends(p, "duration") /\ Has(task[p].ev, "restrict")
                  /\ ~Has(task'[p].ev, "edit")) =>
                /\ task[p].pc = "dur_edit"
                /\ task'[p].outcome = "EditFailed"
                /\ task'[p].outcome \notin DoneOutcomes
                /\ task'[p].ev = <<"restrict">>
                /\ restr' = restr
                /\ restr'[The(task[p].member)] = Some(task[p].ms)]_vars

\* C29 witness: the edit failed, the timeout of the muted member is the new
\* 28 days and the notice still shows the 10 minutes of the mute
C29_NewTimeoutOldNotice ==
    \E p \in Procs, i \in 1..Len(notices) :
        /\ DurationDone(p) /\ task[p].outcome = "EditFailed"
        /\ task[p].ev = <<"restrict">>
        /\ notices[i].author[1] = task[p].caseArg
        /\ notices[i].author[2] = "Mute"
        /\ DurationField(notices[i]) = Some(<<"1", "0", "m">>)
        /\ restr[notices[i].author[3]] = Some(28 * 86400)

\* the steps of warn that belong to _log_case
LogCaseSites == {"lc_fetch", "lc_commit", "lc_send", "idx_fetch", "idx_commit",
                 "lc_summary"}

\* C30: warn commits the new warning before _log_case allocates the case
\* number: the commit of the warning adds one record to the member's list
\* and leaves case_seq, _log_case starts only after it and leaves the
\* warnings, and when the send of _log_case fails the record is still the
\* last of the member's list while the consumed number has no index entry.
\* A warn aimed at a bot or at the invoker ends at once and changes nothing.
C30_WarningStoredBeforeCase ==
    [][\A p \in Procs :
          (task'[p].cmd = "warn" /\ StepOf(p)) =>
             LET member == task'[p].target
                 old == list_warnings(store.modules, member)
                 new == list_warnings(store'.modules, member)
             IN  /\ (Resting(p) /\ (member \in BotMembers \/ member = Author)) =>
                       /\ task'[p].pc = "done" /\ task'[p].outcome = "InvalidTarget"
                       /\ store' = store /\ notices' = notices
                 /\ (task[p].pc = "warn_commit") =>
                       /\ new = Append(old, [reason |-> task[p].reason,
                                              moderator |-> Str(Author),
                                              timestamp |-> task[p].now])
                       /\ SeqOf(store'.modules) = SeqOf(store.modules)
                       /\ task'[p].pc = "lc_fetch"
                 /\ (task'[p].pc = "lc_fetch") => task[p].pc = "warn_commit"
                 /\ (SeqOf(store'.modules) # SeqOf(store.modules)) =>
                       task[p].pc = "lc_commit"
                 /\ (task[p].pc \in LogCaseSites) =>
                       WarnsOf(store'.modules) = WarnsOf(store.modules)
                 /\ (task[p].pc = "lc_send" /\ task'[p].pc = "done") =>
                       /\ task'[p].outcome = "Raised"
                       /\ store' = store
                       /\ new # <<>> /\ new[Len(new)].reason = task[p].reason
                       /\ SeqOf(store.modules) = task[p].case_no
                       /\ Str(task[p].case_no) \notin DOMAIN CaseIndexOf(store.modules)]_vars

\* C30 witness: a warn whose send failed: the number is consumed and not
\* indexed, and the member has the warning
C30_WarnedButNotLogged ==
    /\ task[Worker].pc = "done" /\ task[Worker].cmd = "warn"
    /\ task[Worker].outcome = "Raised"
    /\ task[Worker].case_no \in hist.gaps
    /\ SeqOf(store.modules) = task[Worker].case_no
    /\ Str(task[Worker].case_no) \notin DOMAIN CaseIndexOf(store.modules)
    /\ list_warnings(store.modules, task[Worker].target) # <<>>

====
